---- MODULE Spec2Model ----
(***************************************************************************)
(* Model of the groupcompress delta layer of bzrlib:                       *)
(*   bzrlib/_groupcompress_pyx.pyx  (DeltaIndex, make_delta, apply_delta,  *)
(*                                   _apply_delta, apply_delta_to_source,  *)
(*                                   encode_base128_int,                   *)
(*                                   decode_base128_int)                   *)
(*   delta.h                        (DELTA_SIZE_MIN, get_delta_hdr_size)   *)
(* Bytes are naturals 0..255.  C offsets are 0-based: the byte at C offset *)
(* k of a buffer b is b[k+1].                                              *)
(***************************************************************************)
EXTENDS Integers, Sequences, FiniteSets, TLC

VARIABLES
    pc,          \* "idle", "loop" (inside _apply_delta's while), "done", "fail"
    op,          \* which entry point is running
    buf,         \* the C buffer that holds the delta bytes
    dstart,      \* C offset of the delta inside buf (char *delta)
    source,      \* the C buffer behind char *source
    source_size, \* Py_ssize_t source_size handed to _apply_delta
    data,        \* unsigned char *data, as an offset from the delta start
    top,         \* unsigned char *top, as an offset from the delta start
    size,        \* Py_ssize_t size: bytes still to produce
    alloc,       \* PyString_GET_SIZE(result), -1 while no result is allocated
    out,         \* the bytes written through out (out - dst_buf = Len(out))
    result,      \* the value returned to the caller, NoResult if none
    err,         \* the exception raised, "none" if none
    hdrEnd,      \* data right after get_delta_hdr_size, -1 before
    rdMax,       \* largest delta offset read so far, -1 if none
    instrs,      \* the instructions decoded so far, in order
    _sources,        \* DeltaIndex._sources
    _source_infos,   \* DeltaIndex._source_infos[0 .. len(_sources))
    _index,          \* DeltaIndex._index, NULL or a delta_index
    _source_offset,  \* DeltaIndex._source_offset
    idx_err,     \* the exception the last DeltaIndex call raised, "none" if none
    made,        \* what the last DeltaIndex.make_delta returned, and its call
    emitted,     \* the copy instructions the encoder emitted for made
    added,       \* history: one record per add_source / add_delta_source call
    codec,       \* the last call of encode_base128_int / decode_base128_int
    _table,      \* SimpleSet._table: slot i is _table[i + 1]; <<>> before
                 \* a SimpleSet is constructed
    _mask,       \* SimpleSet._mask
    _used,       \* SimpleSet._used
    _fill,       \* SimpleSet._fill
    set_ret,     \* the last SimpleSet call: what it returned or raised
    members,     \* history: the objects an abstract set would hold
    iter         \* the _SimpleSet_iterator, and what its last step did

vars == <<pc, op, buf, dstart, source, source_size, data, top, size, alloc,
          out, result, err, hdrEnd, rdMax, instrs,
          _sources, _source_infos, _index, _source_offset, idx_err, made,
          emitted, added, codec,
          _table, _mask, _used, _fill, set_ret, members, iter>>

applyVars == <<pc, op, buf, dstart, source, source_size, data, top, size,
               alloc, out, result, err, hdrEnd, rdMax, instrs>>

indexVars == <<_sources, _source_infos, _index, _source_offset, idx_err>>

setVars == <<_table, _mask, _used, _fill, set_ret, members, iter>>

----------------------------------------------------------------------------
(* Bounds of the explored input space *)

MaxDeltaChunks == 4
MaxBufChunks == 3
MaxSources == 2

----------------------------------------------------------------------------
(* Values *)

\* Bytes are 0..255; these values stand outside the byte strings.
Garbage == 256            \* a byte whose value the program does not control
NoResult == <<-1>>        \* no value was returned (an exception was raised)
None == <<-2>>            \* Python's None
NULL == <<>>              \* a NULL delta_index pointer

DELTA_SIZE_MIN == 3

Max(a, b) == IF a >= b THEN a ELSE b
Min(a, b) == IF a <= b THEN a ELSE b

Pow2(n) == 2 ^ n

\* bit j of the byte c
Bit(c, j) == (c \div Pow2(j)) % 2

\* number of set bits among bits lo..hi of c
RECURSIVE PopRange(_, _, _)
PopRange(c, lo, hi) ==
    IF lo > hi THEN 0 ELSE Bit(c, lo) + PopRange(c, lo + 1, hi)

RECURSIVE SeqSum(_)
SeqSum(s) == IF s = <<>> THEN 0 ELSE Head(s) + SeqSum(Tail(s))

----------------------------------------------------------------------------
(* Reading C memory *)

\* Outcomes of a read outside every buffer, and of a header whose shifts
\* overflow (both undefined behaviour in C).
UBBytes == {0, 255}
HdrUBSizes == {-1, 0, 1, 2}

InBuf(b, ds, k) == ds + k >= 0 /\ ds + k < Len(b)

\* The delta offsets of K that lie outside the buffer b.
OOB(b, ds, K) == {k \in K : ~InBuf(b, ds, k)}

\* data[k] for a delta that starts at C offset ds of b; g gives the bytes
\* found outside the buffer.
Rd(b, ds, g, k) == IF InBuf(b, ds, k) THEN b[ds + k + 1] ELSE g[k]

\* The same read when the value only flows into the output.
RdG(b, ds, k) == IF InBuf(b, ds, k) THEN b[ds + k + 1] ELSE Garbage

----------------------------------------------------------------------------
(* delta.h: get_delta_hdr_size *)

\* Number of bytes the do/while consumes: it always reads one byte, and
\* goes on while (cmd & 0x80 && data < top).
RECURSIVE HdrCount(_, _, _)
HdrCount(r, n, j) ==
    IF r[j - 1] >= 128 /\ j < n THEN HdrCount(r, n, j + 1) ELSE j

\* (cmd & ~0x80) << i is an int shift: it is undefined when i >= 32 or when
\* the result does not fit an int.
HdrOverflows(r, cnt) ==
    \E k \in 0 .. cnt - 1 : k >= 5 \/ (k = 4 /\ r[k] % 128 >= 8)

RECURSIVE HdrValue(_, _)
HdrValue(r, cnt) ==
    IF cnt = 0 THEN 0
    ELSE HdrValue(r, cnt - 1) + (r[cnt - 1] % 128) * Pow2(7 * (cnt - 1))

\* The values get_delta_hdr_size can return for the first n bytes r[0..n);
\* a negative one stands for a value above the range of Py_ssize_t.
get_delta_hdr_size(r, n) ==
    LET cnt == HdrCount(r, n, 1)
    IN  IF HdrOverflows(r, cnt) THEN HdrUBSizes ELSE {HdrValue(r, cnt)}

----------------------------------------------------------------------------
(* _groupcompress_pyx.pyx: _decode_copy_instruction *)

\* The operand selected by flag bit j of cmd: the next unread byte when the
\* bit is set, 0 when it is clear.  ops[i] is the i-th byte after cmd.
Operand(cmd, ops, j) ==
    IF Bit(cmd, j) = 1 THEN ops[PopRange(cmd, 0, j)] ELSE 0

CopyCount(cmd) == PopRange(cmd, 0, 6)

\* unsigned int off, kept as its top byte (hi) and its low 24 bits (lo)
CopyOffLoBigEndian(cmd, ops) ==
    Operand(cmd, ops, 0) * 65536 + Operand(cmd, ops, 1) * 256
        + Operand(cmd, ops, 2)
CopyOffLo(cmd, ops) ==
    Operand(cmd, ops, 0) + Operand(cmd, ops, 1) * 256
        + Operand(cmd, ops, 2) * 65536
CopyOffHi(cmd, ops) == Operand(cmd, ops, 3)

CopySizeDefaultNoBytes(cmd, ops) ==
    LET sz == Operand(cmd, ops, 4) + Operand(cmd, ops, 5) * 256
                  + Operand(cmd, ops, 6) * 65536
    IN  IF PopRange(cmd, 4, 6) = 0 THEN 65536 ELSE sz
CopySize(cmd, ops) ==
    LET sz == Operand(cmd, ops, 4) + Operand(cmd, ops, 5) * 256
                  + Operand(cmd, ops, 6) * 65536
    IN  IF sz = 0 THEN 65536 ELSE sz

----------------------------------------------------------------------------
(* _groupcompress_pyx.pyx: the copy checks of _apply_delta *)

\* cp_off + cp_size in unsigned int arithmetic, as <<hi, lo>>
SumHi(hi, lo, sz) == (hi + ((lo + sz) \div 16777216)) % 256
SumLo(lo, sz) == (lo + sz) % 16777216

\* cp_off + cp_size < cp_size: the 32-bit sum wrapped
CopyWraps(hi, lo, sz) == hi + ((lo + sz) \div 16777216) >= 256

\* cp_off + cp_size > source_size (Py_ssize_t is wider than unsigned int,
\* so the comparison is a signed one)
CopyPastSource(hi, lo, sz, ssz) == SumHi(hi, lo, sz) > 0 \/ SumLo(lo, sz) > ssz

CopyRejectedNoWrapCheck(hi, lo, sz, ssz, rem) ==
    \/ CopyPastSource(hi, lo, sz, ssz)
    \/ sz > rem
CopyRejectedNoRemCheck(hi, lo, sz, ssz, rem) ==
    \/ CopyWraps(hi, lo, sz)
    \/ CopyPastSource(hi, lo, sz, ssz)
CopyRejected(hi, lo, sz, ssz, rem) ==
    \/ CopyWraps(hi, lo, sz)
    \/ CopyPastSource(hi, lo, sz, ssz)
    \/ sz > rem

\* memcpy(out, source + cp_off, cp_size)
CopiedBytes(src, hi, lo, sz) ==
    [j \in 1 .. sz |->
        IF hi = 0 /\ lo + j <= Len(src) THEN src[lo + j] ELSE Garbage]

----------------------------------------------------------------------------
(* Inputs *)

\* Byte fragments deltas are assembled from: header bytes, command bytes,
\* operands and payload.  0 is the reserved command, 1 and 2 are short
\* inserts and small sizes, 65 is "A" and a long insert, <<1, 65>> inserts
\* "A", 128 is a copy without operands (size 0x10000) and a header
\* continuation byte, 144 is a copy with one size byte, and the last
\* fragment is a copy command with four offset bytes 0xFF and one size byte.
Chunks ==
    { <<0>>, <<1>>, <<2>>, <<65>>, <<1, 65>>, <<128>>, <<144>>,
      <<159, 255, 255, 255, 255>> }

RECURSIVE ChunkSeqs(_)
ChunkSeqs(n) ==
    IF n = 0 THEN {<<>>}
    ELSE LET P == ChunkSeqs(n - 1)
         IN  P \cup {p \o c : p \in P, c \in Chunks}

Deltas == ChunkSeqs(MaxDeltaChunks)

Sources == { <<>>, <<65>>, <<65, 66>> }

\* Buffers for apply_delta_to_source: some source bytes followed by bytes
\* that are read as a delta.
Buffers == {s \o d : s \in Sources, d \in ChunkSeqs(MaxBufChunks)}

----------------------------------------------------------------------------
(* State after construction *)

NoMade == [ret |-> NoResult, target |-> <<>>, max_delta_size |-> 0,
           oom |-> FALSE, indexed |-> FALSE]
NoCodec == [call |-> "none"]
NoSetRet == [op |-> "none", key |-> <<>>, ret |-> <<>>, err |-> "none",
             expect |-> <<>>]
NoIter == [made |-> FALSE, mutated |-> FALSE, set |-> FALSE, pos |-> 0,
           _used |-> 0, len |-> 0, steps |-> 0, ret |-> <<>>, err |-> "none"]

\* No SimpleSet has been constructed.
NoSimpleSet ==
    /\ _table = <<>>
    /\ _mask = -1
    /\ _used = 0
    /\ _fill = 0
    /\ set_ret = NoSetRet
    /\ members = {}
    /\ iter = NoIter

Init ==
    /\ pc = "idle"
    /\ op = "none"
    /\ buf = <<>>
    /\ dstart = 0
    /\ source = <<>>
    /\ source_size = 0
    /\ data = 0
    /\ top = 0
    /\ size = 0
    /\ alloc = -1
    /\ out = <<>>
    /\ result = NoResult
    /\ err = "none"
    /\ hdrEnd = -1
    /\ rdMax = -1
    /\ instrs = <<>>
    /\ _sources = <<>>
    /\ _source_infos = <<>>
    /\ _index = NULL
    /\ _source_offset = 0
    /\ idx_err = "none"
    /\ made = NoMade
    /\ emitted = <<>>
    /\ added = <<>>
    /\ codec = NoCodec
    /\ NoSimpleSet

----------------------------------------------------------------------------
(* _groupcompress_pyx.pyx: _apply_delta, lines 300-308 *)

\* data = delta; top = data + delta_size; size = get_delta_hdr_size(...);
\* result = PyString_FromStringAndSize(NULL, size); out = dst_buf.
\* o is the entry point, b/ds/dsz the delta, src/ssz the source.
ApplyHeader(o, b, ds, dsz, src, ssz) ==
    \E g \in [OOB(b, ds, 0 .. dsz - 1) -> UBBytes] :
        LET r == [k \in 0 .. dsz - 1 |-> Rd(b, ds, g, k)]
            cnt == HdrCount(r, dsz, 1)
        IN  \E sz \in get_delta_hdr_size(r, dsz) :
              \E allocated \in (IF sz < 0 THEN {FALSE}
                                ELSE IF sz = 0 THEN {TRUE}
                                ELSE {TRUE, FALSE}) :
                /\ op' = o
                /\ buf' = b
                /\ dstart' = ds
                /\ source' = src
                /\ source_size' = ssz
                /\ data' = cnt
                /\ top' = dsz
                /\ size' = sz
                /\ hdrEnd' = cnt
                /\ rdMax' = cnt - 1
                /\ out' = <<>>
                /\ instrs' = <<>>
                /\ result' = NoResult
                /\ IF allocated
                     THEN /\ alloc' = sz
                          /\ pc' = "loop"
                          /\ err' = "none"
                     ELSE /\ alloc' = -1
                          /\ pc' = "fail"
                          /\ err' = IF sz < 0 THEN "SystemError"
                                              ELSE "MemoryError"

\* An entry point raises before _apply_delta is reached.
Raise(o, b, ds, src, e) ==
    /\ op' = o
    /\ buf' = b
    /\ dstart' = ds
    /\ source' = src
    /\ pc' = "fail"
    /\ err' = e
    /\ UNCHANGED <<source_size, data, top, size, alloc, out, result, hdrEnd,
                   rdMax, instrs>>

----------------------------------------------------------------------------
(* _groupcompress_pyx.pyx: apply_delta, lines 223-245 *)

ApplyDelta(source_bytes, delta_bytes) ==
    /\ pc = "idle"
    /\ IF Len(delta_bytes) < DELTA_SIZE_MIN
         THEN Raise("apply_delta", delta_bytes, 0, source_bytes,
                    "RuntimeError")
         ELSE ApplyHeader("apply_delta", delta_bytes, 0, Len(delta_bytes),
                          source_bytes, Len(source_bytes))
    /\ UNCHANGED <<indexVars, setVars, made, emitted, added, codec>>

(* _groupcompress_pyx.pyx: apply_delta_to_source, lines 354-379 *)

ApplyDeltaToSourceWholeBuffer(src, delta_start, delta_end) ==
    /\ pc = "idle"
    /\ IF \/ delta_start >= Len(src)
          \/ delta_end > Len(src)
          \/ delta_start >= delta_end
         THEN Raise("apply_delta_to_source", src, delta_start, src,
                    "ValueError")
         ELSE ApplyHeader("apply_delta_to_source", src, delta_start,
                          delta_end - delta_start, src, Len(src))
    /\ UNCHANGED <<indexVars, setVars, made, emitted, added, codec>>
ApplyDeltaToSource(src, delta_start, delta_end) ==
    /\ pc = "idle"
    /\ IF \/ delta_start >= Len(src)
          \/ delta_end > Len(src)
          \/ delta_start >= delta_end
         THEN Raise("apply_delta_to_source", src, delta_start, src,
                    "ValueError")
         ELSE ApplyHeader("apply_delta_to_source", src, delta_start,
                          delta_end - delta_start, src, delta_start)
    /\ UNCHANGED <<indexVars, setVars, made, emitted, added, codec>>

----------------------------------------------------------------------------
(* _groupcompress_pyx.pyx: _apply_delta, one turn of the while loop,
   lines 309-338 *)

\* One decoded instruction: its command byte, the delta offset of that byte,
\* the operands, and whether its memcpy was executed.
Instr(k, c, at, hi, lo, sz, ex) ==
    [kind |-> k, cmd |-> c, at |-> at, hi |-> hi, lo |-> lo, size |-> sz,
     exec |-> ex]

LoopFail(ins, rd) ==
    /\ pc' = "fail"
    /\ err' = "RuntimeError"
    /\ instrs' = Append(instrs, ins)
    /\ rdMax' = Max(rdMax, rd)
    /\ UNCHANGED <<data, size, out, result>>

\* cmd & 0x80: the copy branch
CopyStep(cmd) ==
    LET n == CopyCount(cmd)
    IN  \E g \in [OOB(buf, dstart, data + 1 .. data + n) -> UBBytes] :
          LET ops == [i \in 1 .. n |-> Rd(buf, dstart, g, data + i)]
              hi == CopyOffHi(cmd, ops)
              lo == CopyOffLo(cmd, ops)
              sz == CopySize(cmd, ops)
          IN  IF CopyRejected(hi, lo, sz, source_size, size)
                THEN LoopFail(Instr("copy", cmd, data, hi, lo, sz, FALSE),
                              data + n)
                ELSE /\ out' = out \o CopiedBytes(source, hi, lo, sz)
                     /\ data' = data + 1 + n
                     /\ size' = size - sz
                     /\ instrs' = Append(instrs,
                                     Instr("copy", cmd, data, hi, lo, sz, TRUE))
                     /\ rdMax' = Max(rdMax, data + n)
                     /\ UNCHANGED <<pc, err, result>>

\* cmd == 0 is reserved
ReservedRejectedNever(cmd) == FALSE
ReservedRejected(cmd) == cmd = 0

\* cmd > size
InsertTooLong(cmd, rem) == cmd > rem

\* the insert branch
InsertStep(cmd) ==
    IF ReservedRejected(cmd)
      THEN LoopFail(Instr("reserved", cmd, data, 0, 0, 0, FALSE), data)
    ELSE IF InsertTooLong(cmd, size)
      THEN LoopFail(Instr("insert", cmd, data, 0, 0, cmd, FALSE), data)
    ELSE /\ out' = out \o [j \in 1 .. cmd |-> RdG(buf, dstart, data + j)]
         /\ data' = data + 1 + cmd
         /\ size' = size - cmd
         /\ instrs' = Append(instrs, Instr("insert", cmd, data, 0, 0, cmd, TRUE))
         /\ rdMax' = Max(rdMax, data + cmd)
         /\ UNCHANGED <<pc, err, result>>

LoopStep ==
    /\ pc = "loop"
    /\ data < top
    /\ LET cmd == buf[dstart + data + 1]
       IN  IF cmd >= 128 THEN CopyStep(cmd) ELSE InsertStep(cmd)
    /\ UNCHANGED <<op, buf, dstart, source, source_size, top, alloc, hdrEnd>>
    /\ UNCHANGED <<indexVars, setVars, made, emitted, added, codec>>

(* _groupcompress_pyx.pyx: _apply_delta after the loop, lines 340-351 *)

SanityFailsSizeOnly(d, t, rem) == rem # 0
SanityFails(d, t, rem) == d # t \/ rem # 0

Finish ==
    /\ pc = "loop"
    /\ ~(data < top)
    /\ IF SanityFails(data, top, size) \/ Len(out) # alloc
         THEN /\ pc' = "fail"
              /\ err' = "RuntimeError"
              /\ result' = NoResult
         ELSE /\ pc' = "done"
              /\ err' = "none"
              /\ result' = out
    /\ UNCHANGED <<op, buf, dstart, source, source_size, data, top, size,
                   alloc, out, hdrEnd, rdMax, instrs>>
    /\ UNCHANGED <<indexVars, setVars, made, emitted, added, codec>>

----------------------------------------------------------------------------
(* apply_delta as a function of its arguments, for the calls that read
   inside the delta: _groupcompress_pyx.pyx lines 223-245 and 292-351 *)

Outcome(e, r) == [err |-> e, result |-> r]

\* The while loop and the checks after it, from C offset p of delta d with
\* rem bytes of the target still to write and o written.  "outside" stands
\* for a run that reads past the end of the delta.
RECURSIVE ApplyLoop(_, _, _, _, _)
ApplyLoop(src, d, p, rem, o) ==
    IF p >= Len(d)
      THEN IF SanityFails(p, Len(d), rem)
             THEN Outcome("RuntimeError", NoResult)
             ELSE Outcome("none", o)
    ELSE LET cmd == d[p + 1]
         IN  IF cmd >= 128
               THEN LET n == CopyCount(cmd)
                    IN  IF p + n >= Len(d) THEN Outcome("outside", NoResult)
                        ELSE LET ops == [i \in 1 .. n |-> d[p + i + 1]]
                                 hi == CopyOffHi(cmd, ops)
                                 lo == CopyOffLo(cmd, ops)
                                 sz == CopySize(cmd, ops)
                             IN  IF CopyRejected(hi, lo, sz, Len(src), rem)
                                   THEN Outcome("RuntimeError", NoResult)
                                   ELSE ApplyLoop(src, d, p + 1 + n, rem - sz,
                                            o \o CopiedBytes(src, hi, lo, sz))
             ELSE IF ReservedRejected(cmd) \/ InsertTooLong(cmd, rem)
               THEN Outcome("RuntimeError", NoResult)
             ELSE IF p + cmd >= Len(d) THEN Outcome("outside", NoResult)
             ELSE ApplyLoop(src, d, p + 1 + cmd, rem - cmd,
                            o \o [j \in 1 .. cmd |-> d[p + j + 1]])

\* The outcomes of apply_delta(source_bytes, delta_bytes): the length
\* check, the header, the allocation (which may fail), the loop.
ApplyDeltaOutcomes(source_bytes, delta_bytes) ==
    IF Len(delta_bytes) < DELTA_SIZE_MIN
      THEN {Outcome("RuntimeError", NoResult)}
    ELSE LET n == Len(delta_bytes)
             r == [k \in 0 .. n - 1 |-> delta_bytes[k + 1]]
             cnt == HdrCount(r, n, 1)
         IN  UNION { IF sz < 0 THEN {Outcome("SystemError", NoResult)}
                     ELSE {ApplyLoop(source_bytes, delta_bytes, cnt, sz, <<>>)}
                            \cup (IF sz > 0
                                    THEN {Outcome("MemoryError", NoResult)}
                                    ELSE {}) :
                     sz \in get_delta_hdr_size(r, n) }

----------------------------------------------------------------------------
(* The decoder applied to arbitrary inputs *)

CallApplyDelta ==
    /\ pc = "idle"
    /\ \E s \in Sources, d \in Deltas : ApplyDelta(s, d)

CallApplyDeltaToSource ==
    /\ pc = "idle"
    /\ \E s \in Buffers :
          \E ds \in -1 .. Len(s) + 1, de \in -1 .. Len(s) + 1 :
              ApplyDeltaToSource(s, ds, de)

Next ==
    \/ CallApplyDelta
    \/ CallApplyDeltaToSource
    \/ LoopStep
    \/ Finish

Spec == Init /\ [][Next]_vars

----------------------------------------------------------------------------
(* The decoder applied to deltas that start with one copy instruction *)

\* Header byte (the target size), any copy command, its operands, and then
\* nothing or the insert of "A".
CopyOperandBytes == {0, 1, 255}
CopyTails == { <<>>, <<1, 65>> }
CopyTargetSizes == {1, 2}

CopyDeltas(cmd) ==
    { <<t, cmd>> \o ops \o tail :
          ops \in [1 .. CopyCount(cmd) -> CopyOperandBytes],
          tail \in CopyTails, t \in CopyTargetSizes }

CopySources == { <<65, 66, 67>> }

CallApplyCopyDelta ==
    /\ pc = "idle"
    /\ \E s \in CopySources, cmd \in 128 .. 255 :
          \E d \in CopyDeltas(cmd) : ApplyDelta(s, d)

NextCopy ==
    \/ CallApplyCopyDelta
    \/ LoopStep
    \/ Finish

SpecCopy == Init /\ [][NextCopy]_vars

----------------------------------------------------------------------------
(* 32-bit values of the varint codec *)

\* An unsigned int / the bit pattern of an int: hi holds bits 28..31, lo
\* bits 0..27, so that the five 7-bit groups are four groups of lo and hi.
U32(n) == [hi |-> n \div Pow2(28), lo |-> n % Pow2(28)]
NoVal == [hi |-> -1, lo |-> -1]

\* a | b for naturals
RECURSIVE BitOr(_, _)
BitOr(a, b) ==
    IF a = 0 THEN b
    ELSE IF b = 0 THEN a
    ELSE Max(a % 2, b % 2) + 2 * BitOr(a \div 2, b \div 2)

\* q << s for a 7-bit q and 0 <= s < 32, truncated to 32 bits.
Shl32(q, s) ==
    IF s >= 28 THEN [hi |-> (q * Pow2(s - 28)) % 16, lo |-> 0]
    ELSE IF s <= 21 THEN [hi |-> 0, lo |-> q * Pow2(s)]
    ELSE [hi |-> (q \div Pow2(28 - s)) % 16,
          lo |-> (q % Pow2(28 - s)) * Pow2(s)]

Or32(a, b) == [hi |-> BitOr(a.hi, b.hi), lo |-> BitOr(a.lo, b.lo)]

\* c_val >> 7
Shr7(c) == [hi |-> 0, lo |-> c.lo \div 128 + c.hi * Pow2(21)]

----------------------------------------------------------------------------
(* _groupcompress_pyx.pyx: encode_base128_int, lines 382-399 *)

\* c_bytes[count] = <unsigned char>((c_val | 0x80) & 0xFF) (line 392)
ContinuationByteNoFlag(c_val) == (c_val.lo % 128)
ContinuationByte(c_val) == 128 + (c_val.lo % 128)

\* while c_val >= 0x80 and count < 8: emit a continuation byte, shift right
\* by 7; then raise if count >= 8 or c_val >= 0x80, else emit the last
\* byte.  -1 marks the raise.
RECURSIVE EncodeBytes(_, _)
EncodeBytes(c_val, count) ==
    IF (c_val.hi > 0 \/ c_val.lo >= 128) /\ count < 8
      THEN <<ContinuationByte(c_val)>> \o EncodeBytes(Shr7(c_val), count + 1)
    ELSE IF count >= 8 \/ c_val.hi > 0 \/ c_val.lo >= 128 THEN <<-1>>
    ELSE <<c_val.lo>>

\* The string returned for val, a value an unsigned int can hold; NoResult
\* when ValueError is raised (never, as five bytes hold 32 bits).
encode_base128_int(val) ==
    LET c_bytes == EncodeBytes(val, 0)
    IN  IF c_bytes[Len(c_bytes)] = -1 THEN NoResult ELSE c_bytes

\* c_val = val (line 389): the conversion to unsigned int raises
\* OverflowError for a value of more than 32 bits.
EncodeInt(val) ==
    /\ codec' = IF val.hi > 15
                  THEN [call |-> "encode", v_in |-> val, bytes |-> <<>>,
                        val |-> NoVal, offset |-> -1,
                        err |-> "OverflowError"]
                ELSE LET r == encode_base128_int(val)
                     IN  [call |-> "encode", v_in |-> val,
                          bytes |-> IF r = NoResult THEN <<>> ELSE r,
                          val |-> NoVal, offset |-> -1,
                          err |-> IF r = NoResult THEN "ValueError"
                                                  ELSE "none"]
    /\ UNCHANGED <<applyVars, setVars, indexVars, made, emitted, added>>

----------------------------------------------------------------------------
(* _groupcompress_pyx.pyx: decode_base128_int, lines 402-431 *)

\* shift = shift + 7 (line 421)
NextShiftByte(shift) == shift + 8
NextShift(shift) == shift + 7

\* val |= q << shift for the int val.  The shift is taken modulo 2^32 when
\* shift < 32 (the code expects a negative val, lines 428-430); a shift by
\* 32 or more is undefined: the builds at hand either shift by
\* shift % 32 or yield 0.
Accumulate(val, q, shift) ==
    IF shift < 32 THEN {Or32(val, Shl32(q, shift))}
    ELSE {Or32(val, Shl32(q, shift % 32)), val}

\* The while loop of lines 419-422 and what follows it, from the state
\* (offset, val, shift); c[k] is c_bytes[k], n the length of the string.
\* The result is the set of possible outcomes.
RECURSIVE DecodeFrom(_, _, _, _, _)
DecodeFrom(c, n, offset, val, shift) ==
    IF c[offset] >= 128 /\ offset < n - 1
      THEN UNION { DecodeFrom(c, n, offset + 1, v, NextShift(shift)) :
                       v \in Accumulate(val, c[offset] % 128, shift) }
    ELSE IF c[offset] >= 128
      THEN {[val |-> NoVal, offset |-> -1, err |-> "ValueError"]}
    ELSE {[val |-> v, offset |-> offset + 1, err |-> "none"] :
              v \in Accumulate(val, c[offset], shift)}

\* decode_base128_int(bytes): c_bytes[len] is the byte after the string.
decode_base128_int(bytes) ==
    UNION { DecodeFrom([k \in 0 .. Len(bytes) |->
                           IF k < Len(bytes) THEN bytes[k + 1] ELSE t],
                       Len(bytes), 0, U32(0), 0) : t \in UBBytes }

DecodeInt(v_in, bytes) ==
    /\ \E r \in decode_base128_int(bytes) :
           codec' = [call |-> "decode", v_in |-> v_in, bytes |-> bytes,
                     val |-> r.val, offset |-> r.offset, err |-> r.err]
    /\ UNCHANGED <<applyVars, setVars, indexVars, made, emitted, added>>

----------------------------------------------------------------------------
(* The varint codec, called on its own *)

MaxVarintLen == 6
MaxSmallVal == 40
MaxIterSteps == 3

VarintBytes == {0, 1, 127, 128, 255}

VarintStrings ==
    UNION { [1 .. n -> VarintBytes] : n \in 0 .. MaxVarintLen }

\* 0 .. MaxSmallVal, the values around the changes of length, 2^31 - 1,
\* 2^31, 2^32 - 1, and 2^32, which an unsigned int cannot hold.
VarintValues ==
    { U32(n) : n \in 0 .. MaxSmallVal }
        \cup { U32(n) : n \in {127, 128, 255, 16383, 16384, 2097151,
                                2097152, 268435455, 268435456,
                                2147483647} }
        \cup { [hi |-> 8, lo |-> 0], [hi |-> 15, lo |-> 268435455],
               [hi |-> 16, lo |-> 0] }

CallEncode ==
    /\ pc = "idle"
    /\ codec = NoCodec
    /\ \E v \in VarintValues : EncodeInt(v)

\* decode_base128_int(encode_base128_int(v))
CallDecodeEncoded ==
    /\ pc = "idle"
    /\ codec.call = "encode"
    /\ codec.err = "none"
    /\ DecodeInt(codec.v_in, codec.bytes)

CallDecode ==
    /\ pc = "idle"
    /\ codec = NoCodec
    /\ \E b \in VarintStrings : DecodeInt(NoVal, b)

NextVarint ==
    \/ CallEncode
    \/ CallDecodeEncoded
    \/ CallDecode

SpecVarint == Init /\ [][NextVarint]_vars

----------------------------------------------------------------------------
(* The index and the encoder behind delta.h's create_delta_index and
   create_delta.  Their bodies are not part of the sources at hand; they
   are modelled from the design description of the index (4.2) and of the
   encoder (4.3). *)

RABIN_WINDOW == 16
BREAK_EVEN == 4
MAX_COPY_SIZE == 65536
MAX_INSERT == 127

\* The 16 bytes of s that start at C offset p.
Window(s, p) == SubSeq(s, p + 1, p + RABIN_WINDOW)

\* A hash of one window: a sum of per-byte, per-position terms.
RECURSIVE rabin_hash_from(_, _)
rabin_hash_from(w, i) ==
    IF i > Len(w) THEN 0
    ELSE (w[i] * (1 + (i % 2)) + rabin_hash_from(w, i + 1)) % 65536
rabin_hash(w) == rabin_hash_from(w, 1)

\* Sampled positions of a source of n bytes: n - 16, n - 32, ... >= 0,
\* walking backwards.
RECURSIVE SamplePositions(_)
SamplePositions(p) ==
    IF p < 0 THEN <<>> ELSE <<p>> \o SamplePositions(p - RABIN_WINDOW)

\* create_delta_index(src, old): NULL when the source is shorter than one
\* window or when memory runs out, else the old entries and one entry per
\* sampled position of the new source.  si is the position of src in
\* _source_infos.
NewEntries(src, si) ==
    LET ps == SamplePositions(src.size - RABIN_WINDOW)
    IN  [k \in DOMAIN ps |->
            [hash_val |-> rabin_hash(Window(src.buf, ps[k])),
             src |-> si, off |-> ps[k]]]

create_delta_index(src, si, old, oom) ==
    IF src.size < RABIN_WINDOW \/ oom THEN NULL
    ELSE [entries |-> (IF old = NULL THEN <<>> ELSE old.entries)
                          \o NewEntries(src, si),
          src_size |-> (IF old = NULL THEN 0 ELSE old.src_size) + src.size]

\* The scan of a delta source (4.2): the header is skipped, copy
\* instructions are skipped with their operands, every insert instruction
\* yields the region (off, len) of its payload.  A reserved command or an
\* instruction that runs past the end makes the delta malformed.
BadScan == [bad |-> TRUE, regions |-> <<>>]

\* C offset right after the varint that starts at C offset p of d, -1 when
\* d ends before the varint does.
RECURSIVE VarintEnd(_, _)
VarintEnd(d, p) ==
    IF p >= Len(d) THEN -1
    ELSE IF d[p + 1] >= 128 THEN VarintEnd(d, p + 1)
    ELSE p + 1

RECURSIVE ScanDelta(_, _, _)
ScanDelta(d, p, acc) ==
    IF p >= Len(d) THEN [bad |-> FALSE, regions |-> acc]
    ELSE LET cmd == d[p + 1]
         IN  IF cmd >= 128
               THEN LET q == p + 1 + PopRange(cmd, 0, 6)
                    IN  IF q > Len(d) THEN BadScan ELSE ScanDelta(d, q, acc)
             ELSE IF cmd = 0 THEN BadScan
             ELSE IF p + 1 + cmd > Len(d) THEN BadScan
             ELSE ScanDelta(d, p + 1 + cmd,
                            Append(acc, [off |-> p + 1, len |-> cmd]))

DeltaInsertRegions(d) ==
    LET h1 == VarintEnd(d, 0)
        h2 == IF h1 < 0 THEN -1 ELSE VarintEnd(d, h1)
    IN  IF h2 < 0 THEN BadScan ELSE ScanDelta(d, h2, <<>>)

\* Sampled positions of one insert region: its end - 16, end - 32, ...
\* down to its first byte.
RECURSIVE RegionSamples(_, _)
RegionSamples(p, first) ==
    IF p < first THEN <<>>
    ELSE <<p>> \o RegionSamples(p - RABIN_WINDOW, first)

RECURSIVE DeltaSamplePositions(_)
DeltaSamplePositions(regions) ==
    IF regions = <<>> THEN <<>>
    ELSE LET r == Head(regions)
         IN  RegionSamples(r.off + r.len - RABIN_WINDOW, r.off)
                 \o DeltaSamplePositions(Tail(regions))

NewDeltaEntries(src, si, regions) ==
    LET ps == DeltaSamplePositions(regions)
    IN  [k \in DOMAIN ps |->
            [hash_val |-> rabin_hash(Window(src.buf, ps[k])),
             src |-> si, off |-> ps[k]]]

\* create_delta_index_from_delta(delta, old): NULL for a malformed delta,
\* for insert payloads of fewer than RABIN_WINDOW bytes in all, or when
\* memory runs out; else the old entries and one entry per sampled
\* position of the insert payloads.
create_delta_index_from_delta(src, si, old, oom) ==
    LET scan == DeltaInsertRegions(src.buf)
        n == SeqSum([k \in DOMAIN scan.regions |-> scan.regions[k].len])
    IN  IF oom \/ scan.bad \/ n < RABIN_WINDOW THEN NULL
        ELSE [entries |-> (IF old = NULL THEN <<>> ELSE old.entries)
                              \o NewDeltaEntries(src, si, scan.regions),
              src_size |-> (IF old = NULL THEN 0 ELSE old.src_size)
                               + src.size]

\* index_lookup(h): the entries whose stored hash equals h.
index_lookup(index, h) ==
    {k \in DOMAIN index.entries : index.entries[k].hash_val = h}

\* Longest l <= lim with a[pa - j] = b[pb - j] for j in 1..l (C offsets).
RECURSIVE ExtendBack(_, _, _, _, _)
ExtendBack(a, pa, b, pb, lim) ==
    IF lim = 0 \/ pa = 0 \/ pb = 0 \/ a[pa] # b[pb] THEN 0
    ELSE 1 + ExtendBack(a, pa - 1, b, pb - 1, lim - 1)

\* Longest l with a[pa + j] = b[pb + j] for j in 0..l-1 (C offsets).
RECURSIVE ExtendFwd(_, _, _, _)
ExtendFwd(a, pa, b, pb) ==
    IF pa >= Len(a) \/ pb >= Len(b) \/ a[pa + 1] # b[pb + 1] THEN 0
    ELSE 1 + ExtendFwd(a, pa + 1, b, pb + 1)

\* The match of entry e at target offset i, extended both ways; npend is
\* the number of pending insert bytes, which bound the backward extension.
MatchOf(infos, t, i, npend, e) ==
    LET s == infos[e.src]
        back == ExtendBack(t, i, s.buf, e.off, npend)
        fwd == ExtendFwd(t, i + RABIN_WINDOW, s.buf, e.off + RABIN_WINDOW)
    IN  [src |-> e.src, back |-> back, len |-> back + RABIN_WINDOW + fwd,
         agg |-> s.agg_offset + e.off - back]

NoMatch == [src |-> 0, back |-> 0, len |-> 0, agg |-> 0]

\* The candidates are the entries with the window's hash whose window
\* equals the target's byte for byte; the longest match wins and ties go
\* to the earliest aggregate offset.
BestMatch(index, infos, t, i, npend) ==
    LET h == rabin_hash(Window(t, i))
        C == {k \in index_lookup(index, h) :
                 Window(infos[index.entries[k].src].buf,
                        index.entries[k].off) = Window(t, i)}
        M == {MatchOf(infos, t, i, npend, index.entries[k]) : k \in C}
    IN  IF M = {} THEN NoMatch
        ELSE CHOOSE m \in M :
                 \A o \in M : m.len > o.len
                              \/ (m.len = o.len /\ m.agg <= o.agg)

\* Insert instructions for the bytes p, at most 127 bytes each.
RECURSIVE InsertInstrs(_)
InsertInstrs(p) ==
    IF p = <<>> THEN <<>>
    ELSE LET n == Min(MAX_INSERT, Len(p))
         IN  <<n>> \o SubSeq(p, 1, n)
                 \o InsertInstrs(SubSeq(p, n + 1, Len(p)))

\* Byte j of v, least significant first.
ByteOf(v, j) == (v \div Pow2(8 * j)) % 256

\* One copy instruction: a flag bit and an operand byte for every nonzero
\* byte of the offset and of the size; size 0x10000 has no size bytes.
CopyInstr(off, sz) ==
    LET s == IF sz = MAX_COPY_SIZE THEN 0 ELSE sz
        offs == SelectSeq(<<0, 1, 2, 3>>, LAMBDA j : ByteOf(off, j) # 0)
        szs == SelectSeq(<<0, 1, 2>>, LAMBDA j : ByteOf(s, j) # 0)
        cmd == 128 + SeqSum([k \in DOMAIN offs |-> Pow2(offs[k])])
                   + SeqSum([k \in DOMAIN szs |-> Pow2(4 + szs[k])])
    IN  <<cmd>> \o [k \in DOMAIN offs |-> ByteOf(off, offs[k])]
              \o [k \in DOMAIN szs |-> ByteOf(s, szs[k])]

\* Copies of more than 0x10000 bytes are split.
RECURSIVE CopyInstrs(_, _)
CopyInstrs(off, sz) ==
    IF sz <= MAX_COPY_SIZE THEN CopyInstr(off, sz)
    ELSE CopyInstr(off, MAX_COPY_SIZE)
             \o CopyInstrs(off + MAX_COPY_SIZE, sz - MAX_COPY_SIZE)

\* The walk over the target from cursor i: pend is the pending insert
\* buffer, acc the instruction bytes emitted so far, log the copies.
RECURSIVE EncodeFrom(_, _, _, _, _, _, _)
EncodeFrom(index, infos, t, i, pend, acc, log) ==
    IF Len(t) - i < RABIN_WINDOW
      THEN [bytes |-> acc \o InsertInstrs(pend \o SubSeq(t, i + 1, Len(t))),
            copies |-> log]
    ELSE LET m == BestMatch(index, infos, t, i, Len(pend))
         IN  IF m.len >= BREAK_EVEN
               THEN EncodeFrom(index, infos, t, i - m.back + m.len, <<>>,
                        acc \o InsertInstrs(
                                   SubSeq(pend, 1, Len(pend) - m.back))
                            \o CopyInstrs(m.agg, m.len),
                        Append(log, [src |-> m.src, off |-> m.agg,
                                     size |-> m.len,
                                     at |-> i - m.back]))
               ELSE EncodeFrom(index, infos, t, i + 1,
                               Append(pend, t[i + 1]), acc, log)

\* Header: varint(source size), varint(target size).
DeltaHeader(index, t) ==
    encode_base128_int(U32(index.src_size))
        \o encode_base128_int(U32(Len(t)))

\* create_delta(index, buf, bufsize, &delta_size, max_delta_size): NULL for
\* an empty target, when memory runs out, or when the delta is larger than
\* a nonzero max_delta_size.
create_delta(index, infos, t, max_delta_size, oom) ==
    IF t = <<>> \/ oom THEN [delta |-> NULL, copies |-> <<>>]
    ELSE LET e == EncodeFrom(index, infos, t, 0, <<>>, <<>>, <<>>)
             d == DeltaHeader(index, t) \o e.bytes
         IN  IF max_delta_size > 0 /\ Len(d) > max_delta_size
               THEN [delta |-> NULL, copies |-> <<>>]
               ELSE [delta |-> d, copies |-> e.copies]

----------------------------------------------------------------------------
(* _groupcompress_pyx.pyx: class DeltaIndex, lines 81-214 *)

_max_num_sources == 65000

\* _expand_sources always raises (line 181).
AddRaisesAfterAppend ==
    /\ idx_err' = "RuntimeError"
    /\ _sources' = Append(_sources, <<>>)
    /\ UNCHANGED <<_source_infos, _index, _source_offset, added>>
AddRaises ==
    /\ idx_err' = "RuntimeError"
    /\ UNCHANGED <<_sources, _source_infos, _index, _source_offset, added>>

\* src.agg_offset = self._source_offset + unadded_bytes (lines 139, 173)
NewAggOffset(unadded_bytes) == _source_offset + unadded_bytes

\* self._source_offset = src.agg_offset + src.size (lines 141, 175)
NewSourceOffsetNoSize(src) == src.agg_offset
NewSourceOffset(src) == src.agg_offset + src.size

\* index = create_delta_index_from_delta(src, self._index) (line 140)
DeltaSourceIndexAsSource(src, si, old, oom) ==
    create_delta_index(src, si, old, oom)
DeltaSourceIndex(src, si, old, oom) ==
    create_delta_index_from_delta(src, si, old, oom)

\* if index != NULL: free_delta_index(self._index); self._index = index
\* (lines 142-144, 176-178)
KeptIndexFirst(index) == IF _index # NULL THEN _index ELSE index
KeptIndex(index) == IF index # NULL THEN index ELSE _index

\* What both add methods do once the index call has returned: the source
\* is in _sources and in _source_infos, the cursor is advanced, and
\* _index is replaced only by a new index (lines 141-144, 175-178).
\* Nothing is raised.
Added(kind, src, unadded_bytes, index, oom) ==
    /\ _sources' = Append(_sources, src.buf)
    /\ _source_infos' = Append(_source_infos, src)
    /\ _source_offset' = NewSourceOffset(src)
    /\ _index' = KeptIndex(index)
    /\ idx_err' = "none"
    /\ added' = Append(added, [kind |-> kind, unadded |-> unadded_bytes,
                               before |-> _source_offset,
                               after |-> _source_offset',
                               failed |-> index = NULL,
                               oom |-> oom,
                               err |-> idx_err'])

(* DeltaIndex.add_source, lines 146-178 *)
AddSource(src_bytes, unadded_bytes, oom) ==
    /\ pc = "idle"
    /\ IF Len(_sources) >= _max_num_sources
         THEN AddRaises
         ELSE LET src == [buf |-> src_bytes, size |-> Len(src_bytes),
                          agg_offset |-> NewAggOffset(unadded_bytes)]
                  index == create_delta_index(src, Len(_sources) + 1,
                                              _index, oom)
              IN  Added("source", src, unadded_bytes, index, oom)
    /\ UNCHANGED <<applyVars, setVars, made, emitted, codec>>

(* DeltaIndex.add_delta_source, lines 113-144 *)
AddDeltaSource(delta, unadded_bytes, oom) ==
    /\ pc = "idle"
    /\ IF Len(_sources) >= _max_num_sources
         THEN AddRaises
         ELSE LET src == [buf |-> delta, size |-> Len(delta),
                          agg_offset |-> NewAggOffset(unadded_bytes)]
                  index == DeltaSourceIndex(src, Len(_sources) + 1,
                                            _index, oom)
              IN  Added("delta", src, unadded_bytes, index, oom)
    /\ UNCHANGED <<applyVars, setVars, made, emitted, codec>>

\* delta = create_delta(self._index, target, target_size, &delta_size,
\*                      max_delta_size) (lines 207-209)
CreateDeltaCallNoMax(index, infos, t, max_delta_size, oom) ==
    create_delta(index, infos, t, 0, oom)
CreateDeltaCall(index, infos, t, max_delta_size, oom) ==
    create_delta(index, infos, t, max_delta_size, oom)

\* result = None; if delta: result = the delta's bytes (lines 210-214)
MakeDeltaResultUnchecked(delta) == delta
MakeDeltaResult(delta) == IF delta # NULL THEN delta ELSE None

(* DeltaIndex.make_delta, lines 188-214 *)
MakeDelta(target_bytes, max_delta_size, oom) ==
    /\ pc = "idle"
    /\ IF _index = NULL
         THEN /\ made' = [ret |-> None, target |-> target_bytes,
                          max_delta_size |-> max_delta_size, oom |-> oom,
                          indexed |-> FALSE]
              /\ emitted' = <<>>
         ELSE LET r == CreateDeltaCall(_index, _source_infos, target_bytes,
                                       max_delta_size, oom)
              IN  /\ made' = [ret |-> MakeDeltaResult(r.delta),
                              target |-> target_bytes,
                              max_delta_size |-> max_delta_size,
                              oom |-> oom, indexed |-> TRUE]
                  /\ emitted' = r.copies
    /\ idx_err' = "none"
    /\ UNCHANGED <<applyVars, setVars, _sources, _source_infos, _index,
                   _source_offset, added, codec>>

----------------------------------------------------------------------------
(* A DeltaIndex fed with sources, asked for deltas, and the deltas applied *)

Ramp(a, n) == [i \in 1 .. n |-> a + i]

IndexSources == { Ramp(0, 20), Ramp(100, 16), <<7, 7, 7>> }

Targets ==
    { Ramp(0, 20),                    \* a whole source
      Ramp(0, 20) \o <<33>>,          \* a source and one more byte
      <<9>> \o Ramp(100, 16),         \* one byte and then a source
      Ramp(100, 16) \o Ramp(0, 20),   \* two sources, in the other order
      <<50, 51, 52>>,                 \* nothing in common with a source
      Ramp(50, 16),                   \* the insert payload of a delta source
      <<>> }

\* Delta sources, in the encoder's format: header, then instructions.
DeltaSources ==
    { <<20, 37, 144, 20, 17>> \o Ramp(200, 17),   \* copy, insert of 17
      <<0, 16, 16>> \o Ramp(50, 16) \o <<145, 3, 16>>, \* insert 16, copy
      <<1, 1, 0>> }                               \* reserved command

Unadded == {0, 5}
MaxDeltaSizes == {0, 10}

\* The calls tried: <<bytes, unadded_bytes or max_delta_size, memory runs
\* out>>; running out of memory is tried with one argument list per method.
AddSourceCalls ==
    (IndexSources \X Unadded \X {FALSE}) \cup {<<Ramp(0, 20), 0, TRUE>>}
AddDeltaSourceCalls ==
    (DeltaSources \X Unadded \X {FALSE})
        \cup {<<<<0, 16, 16>> \o Ramp(50, 16) \o <<145, 3, 16>>, 0, TRUE>>}
MakeDeltaCalls ==
    (Targets \X MaxDeltaSizes \X {FALSE}) \cup {<<Ramp(0, 20), 0, TRUE>>}

\* The aggregate source: every source at its agg_offset; bytes the caller
\* did not hand over are 0.
Aggregate(infos) ==
    LET n == IF infos = <<>> THEN 0
             ELSE infos[Len(infos)].agg_offset + infos[Len(infos)].size
    IN  [p \in 1 .. n |->
            IF \E k \in DOMAIN infos :
                   p - 1 \in infos[k].agg_offset
                             .. infos[k].agg_offset + infos[k].size - 1
              THEN LET k == CHOOSE k \in DOMAIN infos :
                                p - 1 \in infos[k].agg_offset
                                   .. infos[k].agg_offset + infos[k].size - 1
                   IN  infos[k].buf[p - infos[k].agg_offset]
              ELSE 0]

CallAddSource ==
    /\ pc = "idle"
    /\ made = NoMade
    /\ Len(_sources) < MaxSources
    /\ \E c \in AddSourceCalls : AddSource(c[1], c[2], c[3])

CallAddDeltaSource ==
    /\ pc = "idle"
    /\ made = NoMade
    /\ Len(_sources) < MaxSources
    /\ \E c \in AddDeltaSourceCalls : AddDeltaSource(c[1], c[2], c[3])

CallMakeDelta ==
    /\ pc = "idle"
    /\ made = NoMade
    /\ \E c \in MakeDeltaCalls : MakeDelta(c[1], c[2], c[3])

\* make_delta once more, without a limit, after the limit made it fail
CallMakeDeltaAgain ==
    /\ pc = "idle"
    /\ made.ret = None
    /\ made.max_delta_size > 0
    /\ MakeDelta(made.target, 0, FALSE)

\* apply_delta(aggregate source, the delta make_delta returned)
ApplyMade ==
    /\ pc = "idle"
    /\ made # NoMade
    /\ made.ret # None
    /\ ApplyDelta(Aggregate(_source_infos), made.ret)

NextIndex ==
    \/ CallAddSource
    \/ CallAddDeltaSource
    \/ CallMakeDelta
    \/ CallMakeDeltaAgain
    \/ ApplyMade
    \/ LoopStep
    \/ Finish

SpecIndex == Init /\ [][NextIndex]_vars

----------------------------------------------------------------------------
(* A DeltaIndex that is nearly full *)

\* The DeltaIndex after n calls of add_source('', 0): n empty sources, no
\* index, the cursor still at 0.
EmptySource == [buf |-> <<>>, size |-> 0, agg_offset |-> 0]

NearlyFull == _max_num_sources - 2 .. _max_num_sources

\* The calls tried on it, all with unadded_bytes = 0
FullAddSourceCalls == {c \in AddSourceCalls : c[2] = 0}
FullAddDeltaSourceCalls == {c \in AddDeltaSourceCalls : c[2] = 0}

InitFull ==
    /\ pc = "idle"
    /\ op = "none"
    /\ buf = <<>>
    /\ dstart = 0
    /\ source = <<>>
    /\ source_size = 0
    /\ data = 0
    /\ top = 0
    /\ size = 0
    /\ alloc = -1
    /\ out = <<>>
    /\ result = NoResult
    /\ err = "none"
    /\ hdrEnd = -1
    /\ rdMax = -1
    /\ instrs = <<>>
    /\ \E n \in NearlyFull :
           /\ _sources = [i \in 1 .. n |-> <<>>]
           /\ _source_infos = [i \in 1 .. n |-> EmptySource]
    /\ _index = NULL
    /\ _source_offset = 0
    /\ idx_err = "none"
    /\ made = NoMade
    /\ emitted = <<>>
    /\ added = <<>>
    /\ codec = NoCodec
    /\ NoSimpleSet

\* add_source and add_delta_source, as often as the caller likes
CallAddSourceFull ==
    /\ pc = "idle"
    /\ \E c \in FullAddSourceCalls : AddSource(c[1], c[2], c[3])

CallAddDeltaSourceFull ==
    /\ pc = "idle"
    /\ \E c \in FullAddDeltaSourceCalls : AddDeltaSource(c[1], c[2], c[3])

NextFull ==
    \/ CallAddSourceFull
    \/ CallAddDeltaSourceFull

SpecFull == InitFull /\ [][NextFull]_vars

----------------------------------------------------------------------------
(* Properties of the decoder *)

Terminal == pc \in {"done", "fail"}

\* Number of bytes the executed instructions before position i produced.
RECURSIVE Emitted(_, _)
Emitted(log, i) ==
    IF i = 0 THEN 0
    ELSE Emitted(log, i - 1) + (IF log[i].exec THEN log[i].size ELSE 0)

\* The copy cp_off = <<hi, lo>>, cp_size = sz lies inside the first n bytes.
InsideSource(ins, n) == ins.hi = 0 /\ ins.lo + ins.size <= n

\* The first varint of a delta, read as the format describes it, and the
\* offset just after the second one.
FirstVarintCount(d) ==
    HdrCount([k \in 0 .. Len(d) - 1 |-> d[k + 1]], Len(d), 1)
FirstVarint(d) ==
    HdrValue([k \in 0 .. Len(d) - 1 |-> d[k + 1]], FirstVarintCount(d))
SecondVarintEnd(d) ==
    LET c1 == FirstVarintCount(d)
        rest == SubSeq(d, c1 + 1, Len(d))
    IN  IF rest = <<>> THEN c1 + 1 ELSE c1 + FirstVarintCount(rest)

\* C2: apply_delta fails, and returns no target, whenever the source size
\* declared by the delta header (its first varint) differs from the length
\* of the supplied source.
C2_SourceSizeMismatchFails ==
    (op = "apply_delta" /\ pc = "done") => FirstVarint(buf) = Len(source)

\* C3: the decoder consumes the two header varints (source size, then
\* target size) before it interprets the first instruction byte.
C3_HeaderHasTwoVarints ==
    (op = "apply_delta" /\ hdrEnd >= 0) =>
        /\ hdrEnd = SecondVarintEnd(buf)
        /\ \A i \in DOMAIN instrs : instrs[i].at >= SecondVarintEnd(buf)

\* C4: every byte the decoder reads from the delta buffer is at an index
\* below |delta|.
C4_ReadsInsideDelta == rdMax < top

\* C5: every copy the decoder executes satisfies offset + size <= |source|
\* without 32-bit wraparound and reads source bytes inside the source only;
\* a copy that violates it makes the call fail.
C5_CopyInsideSource ==
    \A i \in DOMAIN instrs :
        instrs[i].kind = "copy" =>
            IF InsideSource(instrs[i], source_size)
              THEN instrs[i].lo + instrs[i].size <= Len(source)
              ELSE /\ ~instrs[i].exec
                   /\ pc = "fail"
                   /\ result = NoResult
                   /\ Garbage \notin {out[j] : j \in DOMAIN out}

C5_Witness ==
    /\ pc = "done"
    /\ \E i \in DOMAIN instrs :
           /\ instrs[i].kind = "copy"
           /\ instrs[i].exec
           /\ instrs[i].size = 2
           /\ result = <<65, 66>>

\* C6: the write cursor never passes the declared target size: an
\* instruction whose size exceeds the remaining count is rejected before
\* any of its bytes is written.
C6_WritesInsideTarget ==
    /\ alloc >= 0 => Len(out) <= alloc
    /\ alloc < 0 => out = <<>>
    /\ \A i \in DOMAIN instrs :
           (/\ instrs[i].kind \in {"copy", "insert"}
            /\ instrs[i].size > alloc - Emitted(instrs, i - 1)) =>
               /\ ~instrs[i].exec
               /\ pc = "fail"
               /\ Len(out) = Emitted(instrs, i - 1)

C6_Witness ==
    /\ pc = "fail"
    /\ Len(instrs) = 2
    /\ instrs[1].exec
    /\ instrs[2].kind = "copy"
    /\ InsideSource(instrs[2], source_size)
    /\ instrs[2].size > alloc - Emitted(instrs, 1)
    /\ Len(out) = 1

\* C7: a target is returned only if the loop ended with rem = 0 and the
\* delta cursor exactly at the end of the delta; its length is the declared
\* target size and the sum of the executed copy sizes and insert lengths.
\* Every other call that ended has failed.
C7_ResultOnlyWhenExact ==
    /\ pc = "done" =>
           /\ size = 0
           /\ data = top
           /\ result # NoResult
           /\ Len(result) = alloc
           /\ Len(result) = Emitted(instrs, Len(instrs))
           /\ \A i \in DOMAIN instrs : instrs[i].exec
    /\ (Terminal /\ ~(size = 0 /\ data = top)) =>
           (pc = "fail" /\ result = NoResult)
    /\ pc # "done" => result = NoResult

C7_Witness ==
    /\ pc = "done"
    /\ Len(instrs) = 2
    /\ instrs[1].kind = "copy"
    /\ instrs[2].kind = "insert"
    /\ Len(result) = 2

\* C8: whenever the decoder reads 0x00 as a command byte, the call fails
\* and returns no target.
C8_ReservedOpcodeFails ==
    \A i \in DOMAIN instrs :
        instrs[i].cmd = 0 => (pc = "fail" /\ result = NoResult)

C8_Witness ==
    /\ pc = "fail"
    /\ Len(instrs) = 2
    /\ instrs[1].exec
    /\ instrs[2].cmd = 0
    /\ size = 0

\* C9: applying a delta of fewer than DELTA_SIZE_MIN bytes never yields a
\* target, through apply_delta and through apply_delta_to_source.
\* (Stated for the calls whose delta lies inside the buffer.)
C9_ShortDeltaFails ==
    (pc = "done" /\ dstart >= 0) => top >= DELTA_SIZE_MIN

----------------------------------------------------------------------------
(* Properties of make_delta followed by apply_delta *)

IsDelta(r) == r # NoResult /\ r # None

\* The delta make_delta returned has been applied and the call has ended,
\* and memory did not run out.
MadeApplied ==
    /\ IsDelta(made.ret)
    /\ op = "apply_delta"
    /\ Terminal
    /\ err # "MemoryError"

\* Every source was added with unadded_bytes = 0.
RECURSIVE Contiguous(_, _)
Contiguous(infos, k) ==
    IF k = 0 THEN TRUE
    ELSE /\ Contiguous(infos, k - 1)
         /\ infos[k].agg_offset =
                (IF k = 1 THEN 0
                 ELSE infos[k - 1].agg_offset + infos[k - 1].size)

\* C1: round trip: whenever make_delta(source, target) returns a delta d,
\* apply_delta(source, d) succeeds and returns exactly target.
C1_RoundTrip ==
    (/\ Len(_sources) = 1
     /\ added[1].kind = "source"
     /\ Contiguous(_source_infos, 1)
     /\ MadeApplied) =>
        (pc = "done" /\ result = made.target)

\* C10: multi-source round trip: with sources s1..sn added by
\* add_source(si, 0), every delta make_delta returns applies against
\* s1 || ... || sn to reproduce the target, and each copy of bytes of si
\* carries an aggregate offset in [agg_offset_i, agg_offset_i + |si|).
C10_MultiSourceRoundTrip ==
    (/\ Contiguous(_source_infos, Len(_source_infos))
     /\ \A k \in DOMAIN added : added[k].kind = "source"
     /\ IsDelta(made.ret)) =>
        /\ \A c \in DOMAIN emitted :
               LET s == _source_infos[emitted[c].src]
               IN  /\ emitted[c].off >= s.agg_offset
                   /\ emitted[c].off + emitted[c].size
                          <= s.agg_offset + s.size
        /\ MadeApplied => (pc = "done" /\ result = made.target)

----------------------------------------------------------------------------
(* Properties of DeltaIndex.add_source and DeltaIndex.add_delta_source *)

\* C11: after any sequence of add_source and add_delta_source calls with
\* non-negative unadded_bytes, every source's agg_offset is the cursor
\* before its call plus unadded_bytes, the cursor after the call is
\* agg_offset + size, and so agg_offset never decreases in insertion order
\* and no two sources overlap in the aggregate byte space.
C11_AggOffsets ==
    /\ Len(added) = Len(_source_infos)
    /\ \A k \in DOMAIN _source_infos :
           LET s == _source_infos[k]
           IN  /\ added[k].before =
                      (IF k = 1 THEN 0 ELSE added[k - 1].after)
               /\ s.agg_offset = added[k].before + added[k].unadded
               /\ added[k].after = s.agg_offset + s.size
               /\ k > 1 =>
                      /\ _source_infos[k - 1].agg_offset <= s.agg_offset
                      /\ _source_infos[k - 1].agg_offset
                             + _source_infos[k - 1].size <= s.agg_offset
    /\ _source_offset =
           (IF added = <<>> THEN 0 ELSE added[Len(added)].after)

C11_Witness ==
    /\ Len(_source_infos) = 2
    /\ added[1].kind = "source"
    /\ added[2].kind = "delta"
    /\ added[2].unadded > 0
    /\ _source_infos[1].size > 0

\* The latest add call, when this step is one.
AddStep == Len(added') = Len(added) + 1
LastAdd == added'[Len(added')]

\* C12: an add_source or add_delta_source call whose index construction
\* yields no new index leaves the source list, the aggregate cursor and
\* the index as they were before the call.
C12_FailedAddLeavesState ==
    [][(AddStep /\ LastAdd.failed) =>
           UNCHANGED <<_sources, _source_infos, _source_offset, _index>>]_vars

\* C13: every add_source or add_delta_source call whose index construction
\* fails (short source, malformed delta source, memory) raises an error.
C13_FailureReported ==
    \A k \in DOMAIN added : added[k].failed => added[k].err # "none"

----------------------------------------------------------------------------
(* Properties of DeltaIndex.make_delta *)

\* What the encoder produces for target t from the current index when
\* nothing limits it, and the encoding of t that only inserts.
EncoderResult(t) ==
    DeltaHeader(_index, t)
        \o EncodeFrom(_index, _source_infos, t, 0, <<>>, <<>>, <<>>).bytes
AllInsert(t) == DeltaHeader(_index, t) \o InsertInstrs(t)

\* make_delta has returned and nothing was called since.
MadeReturned == made # NoMade /\ pc = "idle"

\* make_delta ran on an index, with memory, for a non-empty target.
RanEncoder(m) == m.indexed /\ ~m.oom /\ m.target # <<>>

\* C14: a delta returned by make_delta(target, max_delta_size = M), M > 0,
\* has at most M bytes; when the delta would be larger, nothing of it is
\* returned; make_delta leaves the index as it was, and asking again
\* without a limit after such a failure yields the delta.
C14_SizeBound ==
    [][made' # made =>
         /\ UNCHANGED <<_index, _sources, _source_infos, _source_offset>>
         /\ (made'.max_delta_size > 0 /\ IsDelta(made'.ret)) =>
                Len(made'.ret) <= made'.max_delta_size
         /\ (/\ RanEncoder(made')
             /\ made'.max_delta_size > 0
             /\ Len(EncoderResult(made'.target)) > made'.max_delta_size) =>
                made'.ret = None
         /\ (/\ RanEncoder(made)
             /\ made.ret = None
             /\ RanEncoder(made')) =>
                made'.ret = EncoderResult(made'.target)]_vars

C14_Witness ==
    /\ made.max_delta_size > 0
    /\ IsDelta(made.ret)
    /\ Len(made.ret) > Len(DeltaHeader(_index, made.target))
    /\ emitted # <<>>

\* C15 as stated: make_delta returns None exactly when the encoder's
\* result is no smaller than an all-insert encoding of the target.
C15_NoneIffNoBenefit ==
    made # NoMade =>
        (made.ret = None <=>
            (made.indexed =>
                 Len(EncoderResult(made.target))
                     >= Len(AllInsert(made.target))))

\* C15, amended: make_delta returns None exactly when the DeltaIndex has
\* no index or create_delta fails (empty target, no memory, delta larger
\* than a nonzero max_delta_size); otherwise it returns the encoder's
\* delta, even when that is no smaller than an all-insert encoding.
C15_NoneExactlyOnFailure ==
    MadeReturned =>
        IF ~RanEncoder(made) THEN made.ret = None
        ELSE IF /\ made.max_delta_size > 0
                /\ Len(EncoderResult(made.target)) > made.max_delta_size
               THEN made.ret = None
        ELSE made.ret = EncoderResult(made.target)

C15_Witness ==
    /\ IsDelta(made.ret)
    /\ Len(made.ret) >= Len(AllInsert(made.target))

\* The index a DeltaIndex gets when the sources of _source_infos[1 .. k]
\* are added in order at their agg_offsets and memory never runs out:
\* every one by add_source (plain), or each by the method that added it.
RECURSIVE Rebuilt(_, _)
Rebuilt(k, plain) ==
    IF k = 0 THEN NULL
    ELSE LET old == Rebuilt(k - 1, plain)
             src == _source_infos[k]
             index == IF plain \/ added[k].kind = "source"
                        THEN create_delta_index(src, k, old, FALSE)
                        ELSE create_delta_index_from_delta(src, k, old,
                                                           FALSE)
         IN  IF index # NULL THEN index ELSE old

\* What make_delta returns for the call recorded in m when the
\* DeltaIndex holds the given index.
MakeDeltaOn(index, m) ==
    IF index = NULL THEN None
    ELSE MakeDeltaResult(
             CreateDeltaCall(index, _source_infos, m.target,
                             m.max_delta_size, m.oom).delta)

InPayload(d, first, last) ==
    LET rs == DeltaInsertRegions(d).regions
    IN  \E r \in DOMAIN rs :
            rs[r].off <= first /\ last < rs[r].off + rs[r].len

\* C17: after add_delta_source(delta) every indexed 16-byte window of the
\* delta lies inside the payload of one of its insert instructions: it
\* holds no header byte, no command byte and no copy operand.
C17_OnlyInsertBytesIndexed ==
    _index # NULL =>
        \A e \in DOMAIN _index.entries :
            LET en == _index.entries[e]
            IN  added[en.src].kind = "delta" =>
                    InPayload(_source_infos[en.src].buf, en.off,
                              en.off + RABIN_WINDOW - 1)

C17_Witness ==
    /\ _index # NULL
    /\ \E e \in DOMAIN _index.entries :
           LET en == _index.entries[e]
           IN  /\ added[en.src].kind = "delta"
               /\ \E j \in 0 .. _source_infos[en.src].size - 1 :
                      /\ _source_infos[en.src].buf[j + 1] >= 128
                      /\ ~InPayload(_source_infos[en.src].buf, j, j)

----------------------------------------------------------------------------
(* Properties of the varint codec *)

\* Number of bits of a natural, 0 for 0; the same for a 32-bit value.
RECURSIVE BitLen(_)
BitLen(n) == IF n = 0 THEN 0 ELSE 1 + BitLen(n \div 2)
BitLength(v) == IF v.hi > 0 THEN 28 + BitLen(v.hi) ELSE BitLen(v.lo)

CeilDiv(a, b) == (a + b - 1) \div b

\* The i-th 7-bit group of v, the least significant being group 0.
Group(v, i) == IF i >= 4 THEN v.hi ELSE (v.lo \div Pow2(7 * i)) % 128

\* encode_base128_int returned a string for codec.v_in.
Encoded == codec.call # "none" /\ codec.v_in # NoVal /\ codec.v_in.hi <= 15

\* C18: for every unsigned 32-bit v, decode_base128_int applied to
\* encode_base128_int(v) returns (v, n), n the length of the encoding.
C18_VarintRoundTrip ==
    (codec.call = "decode" /\ codec.v_in # NoVal) =>
        /\ codec.err = "none"
        /\ codec.val = codec.v_in
        /\ codec.offset = Len(codec.bytes)

C18_Witness ==
    /\ codec.call = "decode"
    /\ codec.v_in = [hi |-> 15, lo |-> 268435455]
    /\ codec.offset = 5

\* What C19 says of the bytes of encode_base128_int(v), but for their
\* number: 7-bit groups, least significant first, the high bit set on
\* every byte but the last, 0 encoded as the byte 0x00.
GroupsInOrder ==
    LET b == codec.bytes
    IN  /\ Len(b) >= 1
        /\ \A i \in DOMAIN b :
               /\ b[i] % 128 = Group(codec.v_in, i - 1)
               /\ (b[i] >= 128) <=> (i < Len(b))
        /\ \A i \in Len(b) .. 4 : Group(codec.v_in, i) = 0
        /\ codec.v_in = U32(0) => b = <<0>>

\* C19 as stated: the encoding has ceil(bits / 7) bytes, bits being the
\* bit length of v.
C19_EncodedLengthCeil ==
    Encoded =>
        /\ GroupsInOrder
        /\ Len(codec.bytes) = CeilDiv(BitLength(codec.v_in), 7)

\* C19, amended: the encoding has max(1, ceil(bits / 7)) bytes: the value
\* 0, whose bit length is 0, takes one byte.
C19_EncodedBytes ==
    Encoded =>
        /\ codec.err = "none"
        /\ GroupsInOrder
        /\ Len(codec.bytes) = Max(1, CeilDiv(BitLength(codec.v_in), 7))

C19_Witness ==
    /\ codec.call = "encode"
    /\ codec.v_in = U32(16384)
    /\ codec.bytes = <<128, 128, 1>>

\* C20: decoding a varint fails when the input ends before a byte with
\* the high bit clear: decode_base128_int raises for such a string, the
\* empty one included, and never reports more bytes than the string has;
\* a delta whose header varint is cut short is not applied.
C20_TruncatedVarintFails ==
    /\ codec.call = "decode" =>
           /\ (\A i \in DOMAIN codec.bytes : codec.bytes[i] >= 128) =>
                  codec.err = "ValueError"
           /\ codec.offset <= Len(codec.bytes)
    /\ (op = "apply_delta" /\ pc = "done") => buf[hdrEnd] < 128

\* Position of the first byte of b with the high bit clear, from position
\* i on; Len(b) + 1 when there is none.
RECURSIVE TerminatorAt(_, _)
TerminatorAt(b, i) ==
    IF i > Len(b) THEN i
    ELSE IF b[i] < 128 THEN i
    ELSE TerminatorAt(b, i + 1)

\* The varint that starts b ends inside b and its value needs more than
\* 32 bits: more than five bytes, or a fifth byte above 4 bits.
TooWide(b) ==
    LET t == TerminatorAt(b, 1)
    IN  t <= Len(b) /\ (t > 5 \/ (t = 5 /\ b[5] >= 16))

\* C21: decode_base128_int raises an error, and returns no wrapped or
\* truncated value, when the encoded value does not fit 32 bits.
C21_OverflowFails ==
    (codec.call = "decode" /\ TooWide(codec.bytes)) => codec.err # "none"

----------------------------------------------------------------------------
(* Properties of the copy instruction *)

\* The byte of the delta at C offset k.
DeltaByte(k) == buf[dstart + k + 1]

\* The operands of the decoded instruction ins lie inside the buffer.
OperandsInside(ins) ==
    /\ dstart >= 0
    /\ dstart + ins.at + PopRange(ins.cmd, 0, 6) < Len(buf)

\* The operand byte that flag bit j of ins.cmd stands for, read from the
\* delta: it follows the bytes of the lower set bits; 0 when bit j is clear.
OperandByte(ins, j) ==
    IF Bit(ins.cmd, j) = 1
      THEN DeltaByte(ins.at + 1 + PopRange(ins.cmd, 0, j - 1))
      ELSE 0

\* The little-endian value of the size bytes present.
ParsedSize(ins) ==
    OperandByte(ins, 4) + OperandByte(ins, 5) * 256
        + OperandByte(ins, 6) * 65536

CopyInstrsDecoded ==
    {i \in DOMAIN instrs :
         instrs[i].kind = "copy" /\ OperandsInside(instrs[i])}

C23_OperandBytes ==
    \A i \in CopyInstrsDecoded :
        LET ins == instrs[i]
            next == ins.at + 1 + PopRange(ins.cmd, 0, 6)
        IN  /\ ins.lo = OperandByte(ins, 0) + OperandByte(ins, 1) * 256
                            + OperandByte(ins, 2) * 65536
            /\ ins.hi = OperandByte(ins, 3)
            /\ ParsedSize(ins) # 0 => ins.size = ParsedSize(ins)
            /\ i < Len(instrs) => instrs[i + 1].at = next
            /\ (i = Len(instrs) /\ ins.exec) => data = next

C23_Witness ==
    /\ Len(instrs) = 2
    /\ instrs[1].cmd = 148
    /\ instrs[1].exec
    /\ instrs[1].size = 1
    /\ instrs[2].kind = "insert"
    /\ instrs[2].at = 4

----------------------------------------------------------------------------
(* Properties of a full DeltaIndex *)

\* C24: a DeltaIndex never holds more than _max_num_sources sources, and
\* an add_source or add_delta_source on a DeltaIndex that holds that many
\* raises and leaves the source list, the source_info array, the cursor
\* and the index as they were.
C24_FullIndexRaises ==
    [][/\ Len(_sources') <= _max_num_sources
       /\ Len(_sources) >= _max_num_sources =>
              /\ idx_err' = "RuntimeError"
              /\ _sources' = _sources
              /\ _source_infos' = _source_infos
              /\ _source_offset' = _source_offset
              /\ _index' = _index]_vars

C24_Witness ==
    /\ Len(_sources) = _max_num_sources
    /\ _index # NULL
    /\ idx_err = "RuntimeError"

----------------------------------------------------------------------------
(* Properties of apply_delta_to_source *)

ToSource == op = "apply_delta_to_source"

\* The copy instruction ins ends after C offset n of the source.
EndsAfter(ins, n) == ins.hi > 0 \/ ins.lo + ins.size > n

\* C25: apply_delta_to_source copies from source[0:delta_start] only: a
\* copy with offset + size > delta_start is not executed and makes the call
\* fail, also when offset + size lies inside the buffer.
C25_CopyBeforeDeltaStart ==
    (ToSource /\ err # "ValueError") =>
        /\ source_size = dstart
        /\ \A i \in DOMAIN instrs :
              (instrs[i].kind = "copy" /\ EndsAfter(instrs[i], dstart)) =>
                  /\ ~instrs[i].exec
                  /\ pc = "fail"
                  /\ result = NoResult

\* a copy of 2 bytes from offset 0 with delta_start = 1, in a buffer of 4
\* bytes or more and a target of 2 bytes
C25_Witness ==
    /\ ToSource
    /\ dstart = 1
    /\ Len(instrs) = 1
    /\ instrs[1].kind = "copy"
    /\ instrs[1].lo = 0
    /\ instrs[1].size = 2
    /\ instrs[1].size <= size
    /\ ~EndsAfter(instrs[1], Len(buf))
    /\ pc = "fail"

\* The arguments were accepted and 0 <= delta_start < delta_end <= |source|.
ToSourceInRange ==
    /\ ToSource
    /\ err # "ValueError"
    /\ dstart >= 0

\* C26: for 0 <= delta_start < delta_end <= |source|,
\* apply_delta_to_source(source, delta_start, delta_end) ends as
\* apply_delta(source[0:delta_start], source[delta_start:delta_end]) does:
\* with the same target or with the same error.  (Stated for the calls
\* that read inside the delta.)
C26_SameAsApplyDelta ==
    (ToSourceInRange /\ Terminal /\ rdMax < top) =>
        Outcome(err, result)
            \in ApplyDeltaOutcomes(SubSeq(buf, 1, dstart),
                                   SubSeq(buf, dstart + 1, dstart + top))

\* The same for the deltas of DELTA_SIZE_MIN bytes and more.
SameAsApplyDeltaFromMin ==
    (ToSourceInRange /\ Terminal /\ rdMax < top /\ top >= DELTA_SIZE_MIN) =>
        Outcome(err, result)
            \in ApplyDeltaOutcomes(SubSeq(buf, 1, dstart),
                                   SubSeq(buf, dstart + 1, dstart + top))

\* C27: apply_delta_to_source raises ValueError, before it reads a byte,
\* unless 0 <= delta_start < delta_end <= |source|: a call that gets past
\* the checks has its delta inside the source buffer.
C27_DeltaInsideBuffer ==
    (ToSource /\ err # "ValueError") =>
        /\ 0 <= dstart
        /\ 0 < top
        /\ dstart + top <= Len(buf)

----------------------------------------------------------------------------
(* SimpleSet (part_004): the table, _lookup, _insert_clean, _resize *)

DEFAULT_SIZE == 1024
PERTURB_SHIFT == 5

\* An object is <<identity, value>>: two objects are the same object when
\* both agree and equal when the values agree.  The values are integers
\* from 0 to 2^31 - 1, which are their own hash.
_dummy == <<-3>>
hash(key) == key[2]

IsLive(e) == e # NULL /\ e # _dummy

\* _is_equal, lines 48-68; the dummy object is equal to no key.
_is_equalIdentity(this, this_hash, other) == this = other
_is_equal(this, this_hash, other) ==
    IF this = other THEN TRUE
    ELSE IF other = _dummy THEN FALSE
    ELSE IF hash(other) # this_hash THEN FALSE
    ELSE this[2] = other[2]

\* i = (i << 2) + i + perturb + 1, of which only i & mask is used
NextProbe(i, perturb, mask) == (5 * i + perturb + 1) % (mask + 1)

\* perturb >>= PERTURB_SHIFT
NextPerturb(perturb) == perturb \div Pow2(PERTURB_SHIFT)

\* What _lookup returns when no earlier dummy was seen, and the slot index
\* that stands for a probe loop that never ends.
NoSlot == -1
Hung == -2

\* One turn of the while True loop of _lookup, lines 445-458: p is the
\* probe <<i, perturb, free_slot, the slot found or NoSlot>>.
LookupStep(table, mask, key, p) ==
    IF p[4] # NoSlot THEN p
    ELSE LET j == NextProbe(p[1], p[2], mask)
             cur == table[j + 1]
         IN  IF cur = NULL
               THEN <<j, p[2], p[3], IF p[3] # NoSlot THEN p[3] ELSE j>>
             ELSE IF cur = key \/ _is_equal(key, hash(key), cur)
               THEN <<j, p[2], p[3], j>>
             ELSE <<j, NextPerturb(p[2]),
                    IF cur = _dummy /\ p[3] = NoSlot THEN j ELSE p[3],
                    NoSlot>>

\* The loop, run until it returns: n turns, Turns times Turns turns, and
\* as many of these as it takes.
Turns == 13

RECURSIVE LookupTurns(_, _, _, _, _)
LookupTurns(table, mask, key, p, n) ==
    IF n = 0 \/ p[4] # NoSlot THEN p
    ELSE LookupTurns(table, mask, key, LookupStep(table, mask, key, p),
                     n - 1)

RECURSIVE LookupRuns(_, _, _, _, _)
LookupRuns(table, mask, key, p, n) ==
    IF n = 0 \/ p[4] # NoSlot THEN p
    ELSE LookupRuns(table, mask, key,
                    LookupTurns(table, mask, key, p, Turns), n - 1)

RECURSIVE LookupLoop(_, _, _, _)
LookupLoop(table, mask, key, p) ==
    IF p[4] # NoSlot THEN p[4]
    ELSE LookupLoop(table, mask, key,
                    LookupRuns(table, mask, key, p, Turns))

\* The loop ends at an empty slot or at a slot that holds key or an equal
\* object; the probe sequence visits every slot.
LookupEnds(table, key) ==
    \E k \in DOMAIN table :
        \/ table[k] = NULL
        \/ IsLive(table[k]) /\ _is_equal(key, hash(key), table[k])

\* _lookup, lines 407-459: the index of the slot where key is or would be
\* put.
_lookup(table, mask, key) ==
    LET i == hash(key) % (mask + 1)
        cur == table[i + 1]
    IN  IF cur = NULL \/ cur = key THEN i
        ELSE IF cur # _dummy /\ _is_equal(key, hash(key), cur) THEN i
        ELSE IF ~LookupEnds(table, key) THEN Hung
        ELSE LookupLoop(table, mask, key,
                        <<i, hash(key), IF cur = _dummy THEN i ELSE NoSlot,
                          NoSlot>>)

\* One turn of the while loop of _insert_clean, lines 187-190: p is the
\* probe <<i, perturb>>, and it stays at an empty slot.
InsertStep1(table, mask, p) ==
    IF table[p[1] + 1] = NULL THEN p
    ELSE <<NextProbe(p[1], p[2], mask), NextPerturb(p[2])>>

RECURSIVE InsertTurns(_, _, _, _)
InsertTurns(table, mask, p, n) ==
    IF n = 0 \/ table[p[1] + 1] = NULL THEN p
    ELSE InsertTurns(table, mask, InsertStep1(table, mask, p), n - 1)

RECURSIVE InsertRuns(_, _, _, _)
InsertRuns(table, mask, p, n) ==
    IF n = 0 \/ table[p[1] + 1] = NULL THEN p
    ELSE InsertRuns(table, mask, InsertTurns(table, mask, p, Turns), n - 1)

RECURSIVE InsertProbe(_, _, _)
InsertProbe(table, mask, p) ==
    IF table[p[1] + 1] = NULL THEN p[1]
    ELSE InsertProbe(table, mask, InsertRuns(table, mask, p, Turns))

\* _insert_clean, lines 166-193: key goes to the first empty slot of its
\* probe sequence.
_insert_clean(table, mask, key) ==
    [table EXCEPT
        ![InsertProbe(table, mask,
                      <<hash(key) % (mask + 1), hash(key)>>) + 1] = key]

\* keys[lo .. hi] inserted one after the other (the test of Len(half)
\* has the first half inserted before the second half is looked at)
RECURSIVE InsertKeys(_, _, _, _, _)
InsertKeys(table, mask, keys, lo, hi) ==
    IF lo > hi THEN table
    ELSE IF lo = hi THEN _insert_clean(table, mask, keys[lo])
    ELSE LET mid == (lo + hi) \div 2
             half == InsertKeys(table, mask, keys, lo, mid)
         IN  IF Len(half) = mask + 1
               THEN InsertKeys(half, mask, keys, mid + 1, hi)
               ELSE half

\* new_size = DEFAULT_SIZE; while new_size <= min_used: new_size <<= 1
\* (lines 211-213; the sizes used here stay far below the range of
\* Py_ssize_t)
RECURSIVE NewSize(_, _)
NewSize(new_size, min_used) ==
    IF new_size <= min_used THEN NewSize(2 * new_size, min_used)
    ELSE new_size

\* The entries the loop of lines 239-248 moves: the live ones among the
\* first `fill` entries of the old table that are not empty.
Moved(table, fill) ==
    LET nonnull == SelectSeq(table, LAMBDA e : e # NULL)
    IN  SelectSeq(SubSeq(nonnull, 1, Min(fill, Len(nonnull))), IsLive)

\* _resize, lines 199-250: the new table, mask, used and fill.  hung: an
\* _insert_clean into a table without an empty slot never returns.
_resize(table, fill, min_used) ==
    LET new_size == NewSize(DEFAULT_SIZE, min_used)
        keys == Moved(table, fill)
    IN  IF Len(keys) > new_size
          THEN [hung |-> TRUE, table |-> table, mask |-> new_size - 1,
                used |-> 0, fill |-> 0]
          ELSE [hung |-> FALSE,
                table |-> InsertKeys([k \in 1 .. new_size |-> NULL],
                                     new_size - 1, keys, 1, Len(keys)),
                mask |-> new_size - 1,
                used |-> Len(keys),
                fill |-> Len(keys)]

----------------------------------------------------------------------------
(* SimpleSet: add, discard, _py_resize, and the iterator *)

\* The objects of the abstract set that are equal to key
Stored(key) == {m \in members : m[2] = key[2]}

SetState(t, m, u, f) ==
    /\ _table' = t
    /\ _mask' = m
    /\ _used' = u
    /\ _fill' = f

SetResult(o, key, r, e, x) ==
    set_ret' = [op |-> o, key |-> key, ret |-> r, err |-> e, expect |-> x]

\* The iterator, if there is one, has seen the set change.
Mutated(changed) ==
    iter' = IF iter.made /\ changed THEN [iter EXCEPT !.mutated = TRUE]
            ELSE iter

\* self._resize(min_used) at the end of a call that returns r: the call
\* raises MemoryError when the new table cannot be allocated, and never
\* returns when the entries do not fit the new table.
Resized(o, key, t, f, u, min_used, oom, r, x) ==
    IF oom
      THEN /\ SetState(t, _mask, u, f)
           /\ SetResult(o, key, NoResult, "MemoryError", x)
    ELSE LET n == _resize(t, f, min_used)
         IN  IF n.hung
               THEN /\ SetState(t, _mask, u, f)
                    /\ SetResult(o, key, NoResult, "hang", x)
               ELSE /\ SetState(n.table, n.mask, n.used, n.fill)
                    /\ SetResult(o, key, r, "none", x)

\* (self._fill * 3) >= ((self._mask + 1) * 2), line 285
AddResizes(fill, mask) == fill * 3 >= (mask + 1) * 2

\* ((self._fill - self._used) * 5 > self._mask), line 319
DiscardResizes(fill, used, mask) == (fill - used) * 5 > mask

(* SimpleSet.__contains__, lines 138-145 *)
Contains(key) == IsLive(_table[_lookup(_table, _mask, key) + 1])

(* SimpleSet.add / _add / SimpleSet_Add, lines 252-291 and 477-487 *)
SetAdd(key, oom) ==
    /\ set_ret.err # "hang"
    /\ LET x == IF Stored(key) # {} THEN CHOOSE m \in Stored(key) : TRUE
                ELSE key
       IN  /\ members' = IF Stored(key) # {} THEN members
                         ELSE members \cup {key}
           /\ IF ~(_used < _mask)
                THEN /\ SetResult("add", key, NoResult, "AssertionError", x)
                     /\ UNCHANGED <<_table, _mask, _used, _fill, iter>>
              ELSE LET slot == _lookup(_table, _mask, key)
                   IN  IF slot = Hung
                         THEN /\ SetResult("add", key, NoResult, "hang", x)
                              /\ UNCHANGED <<_table, _mask, _used, _fill,
                                             iter>>
                       ELSE LET e == _table[slot + 1]
                                isnew == ~IsLive(e)
                                t == IF isnew
                                       THEN [_table EXCEPT ![slot + 1] = key]
                                       ELSE _table
                                f == IF e = NULL THEN _fill + 1 ELSE _fill
                                u == IF isnew THEN _used + 1 ELSE _used
                            IN  /\ Mutated(isnew)
                                /\ IF isnew /\ AddResizes(f, _mask)
                                     THEN Resized("add", key, t, f, u, u * 2,
                                                  oom, t[slot + 1], x)
                                     ELSE /\ SetState(t, _mask, u, f)
                                          /\ SetResult("add", key,
                                                 t[slot + 1], "none", x)
    /\ UNCHANGED <<applyVars, indexVars, made, emitted, added, codec>>

(* SimpleSet.discard / _discard, lines 293-321 *)
SetDiscard(key, oom) ==
    /\ set_ret.err # "hang"
    /\ LET x == IF Stored(key) # {} THEN <<1>> ELSE <<0>>
           slot == _lookup(_table, _mask, key)
       IN  /\ members' = members \ Stored(key)
           /\ IF slot = Hung
                THEN /\ SetResult("discard", key, NoResult, "hang", x)
                     /\ UNCHANGED <<_table, _mask, _used, _fill, iter>>
              ELSE IF ~IsLive(_table[slot + 1])
                THEN /\ SetResult("discard", key, <<0>>, "none", x)
                     /\ UNCHANGED <<_table, _mask, _used, _fill, iter>>
              ELSE LET t == [_table EXCEPT ![slot + 1] = _dummy]
                       u == _used - 1
                   IN  /\ Mutated(TRUE)
                       /\ IF DiscardResizes(_fill, u, _mask)
                            THEN Resized("discard", key, t, _fill, u, u * 2,
                                         oom, <<1>>, x)
                            ELSE /\ SetState(t, _mask, u, _fill)
                                 /\ SetResult("discard", key, <<1>>, "none",
                                              x)
    /\ UNCHANGED <<applyVars, indexVars, made, emitted, added, codec>>

(* SimpleSet._py_resize, lines 195-197 *)
PyResize(min_used, oom) ==
    /\ set_ret.err # "hang"
    /\ Resized("_py_resize", <<>>, _table, _fill, _used, min_used, oom,
               <<NewSize(DEFAULT_SIZE, min_used)>>, <<>>)
    /\ UNCHANGED <<members, iter>>
    /\ UNCHANGED <<applyVars, indexVars, made, emitted, added, codec>>

(* SimpleSet.__iter__ and _SimpleSet_iterator.__init__, lines 333-349 *)
IterNew ==
    /\ set_ret.err # "hang"
    /\ ~iter.made
    /\ iter' = [made |-> TRUE, mutated |-> FALSE, set |-> TRUE, pos |-> 0,
                _used |-> _used, len |-> _used, steps |-> 0, ret |-> <<>>,
                err |-> "none"]
    /\ UNCHANGED <<_table, _mask, _used, _fill, set_ret, members>>
    /\ UNCHANGED <<applyVars, indexVars, made, emitted, added, codec>>

\* while i <= mask and (table[i] == NULL or table[i] == _dummy): i += 1
NextLive(table, mask, i) ==
    LET live == {j \in i .. mask : IsLive(table[j + 1])}
    IN  IF live = {} THEN Max(i, mask + 1)
        ELSE CHOOSE j \in live : \A k \in live : j <= k

\* if self.set._used != self._used, line 360
SizeChanged(set_used, it_used) == set_used # it_used

(* _SimpleSet_iterator.__next__, lines 354-378 *)
IterNext ==
    /\ set_ret.err # "hang"
    /\ iter.made
    /\ iter.steps < MaxIterSteps
    /\ LET step == [iter EXCEPT !.steps = iter.steps + 1]
       IN  IF ~iter.set
             THEN iter' = [step EXCEPT !.ret = <<>>, !.err = "StopIteration"]
           ELSE IF SizeChanged(_used, iter._used)
             THEN iter' = [step EXCEPT !._used = -1, !.ret = <<>>,
                                       !.err = "RuntimeError"]
           ELSE LET i == NextLive(_table, _mask, iter.pos)
                IN  IF i > _mask
                      THEN iter' = [step EXCEPT !.pos = i + 1, !.set = FALSE,
                                                !.ret = <<>>,
                                                !.err = "StopIteration"]
                      ELSE iter' = [step EXCEPT !.pos = i + 1,
                                                !.len = iter.len - 1,
                                                !.ret = _table[i + 1],
                                                !.err = "none"]
    /\ UNCHANGED <<_table, _mask, _used, _fill, set_ret, members>>
    /\ UNCHANGED <<applyVars, indexVars, made, emitted, added, codec>>

----------------------------------------------------------------------------
(* SimpleSet: the sets and the keys the calls are tried on *)

\* The SimpleSet after add(v) for the n integers v = first, first + 1, ...
\* below 2048 and discard of the first m of them: no two of them share a
\* slot, the table has grown to 2048 slots at the 683rd add, and m is too
\* small for discard to resize.
FilledKey(v) == <<0, v>>

FilledSize(n) == IF AddResizes(n, DEFAULT_SIZE - 1)
                   THEN 2 * DEFAULT_SIZE ELSE DEFAULT_SIZE

FilledTable(first, n, m) ==
    [k \in 1 .. FilledSize(n) |->
        IF k - 1 \in first .. first + m - 1 THEN _dummy
        ELSE IF k - 1 \in first + m .. first + n - 1 THEN FilledKey(k - 1)
        ELSE NULL]

Filled(first, n, m) ==
    /\ _table = FilledTable(first, n, m)
    /\ _mask = FilledSize(n) - 1
    /\ _used = n - m
    /\ _fill = n
    /\ members = {FilledKey(v) : v \in first + m .. first + n - 1}
    /\ set_ret = NoSetRet
    /\ iter = NoIter

\* Two objects of value 1, and an object that shares slot 1 with them in a
\* table of 1024 slots.
Keys == { <<1, 1>>, <<2, 1>>, <<1, 1025>> }

\* <<first, n, m>>: new, nearly two thirds full, and with 204 dummies
Fillings == { <<20, 0, 0>>, <<20, 681, 0>>, <<20, 300, 204>> }

\* new, and with the 1022 objects 2 .. 1023, to which the calls add 0 and 1
ResizeFillings == { <<20, 0, 0>>, <<2, 1022, 0>> }
ResizeKeys == { <<1, 0>>, <<1, 1>> }
MinUsed == {0, 1024}

IterFillings == { <<20, 0, 0>>, <<20, 3, 1>> }

InitSetOn(fillings) ==
    /\ pc = "idle"
    /\ op = "none"
    /\ buf = <<>>
    /\ dstart = 0
    /\ source = <<>>
    /\ source_size = 0
    /\ data = 0
    /\ top = 0
    /\ size = 0
    /\ alloc = -1
    /\ out = <<>>
    /\ result = NoResult
    /\ err = "none"
    /\ hdrEnd = -1
    /\ rdMax = -1
    /\ instrs = <<>>
    /\ _sources = <<>>
    /\ _source_infos = <<>>
    /\ _index = NULL
    /\ _source_offset = 0
    /\ idx_err = "none"
    /\ made = NoMade
    /\ emitted = <<>>
    /\ added = <<>>
    /\ codec = NoCodec
    /\ \E f \in fillings : Filled(f[1], f[2], f[3])

\* Memory runs out where the call may allocate a table.
CallAdd ==
    \E key \in Keys :
        \E oom \in {FALSE} \cup {AddResizes(_fill + 1, _mask)} :
            SetAdd(key, oom)
CallDiscard ==
    \E key \in Keys :
        \E oom \in {FALSE} \cup {DiscardResizes(_fill, _used - 1, _mask)} :
            SetDiscard(key, oom)

\* add, discard and _py_resize on a set that may be shrunk
ResizeAdd == \E key \in ResizeKeys : SetAdd(key, FALSE)
ResizeDiscard == \E key \in ResizeKeys : SetDiscard(key, FALSE)
CallPyResize == \E n \in MinUsed, oom \in BOOLEAN : PyResize(n, oom)

InitSet == InitSetOn(Fillings)
NextSet ==
    \/ CallAdd
    \/ CallDiscard
SpecSet == InitSet /\ [][NextSet]_vars

InitSetResize == InitSetOn(ResizeFillings)
NextSetResize ==
    \/ ResizeAdd
    \/ ResizeDiscard
    \/ CallPyResize
SpecSetResize == InitSetResize /\ [][NextSetResize]_vars

\* add and discard while an iterator may be at work
IterKeys == { <<1, 1>>, <<1, 1025>> }
IterAdd == \E key \in IterKeys : SetAdd(key, FALSE)
IterDiscard == \E key \in IterKeys : SetDiscard(key, FALSE)

InitSetIter == InitSetOn(IterFillings)
NextSetIter ==
    \/ IterAdd
    \/ IterDiscard
    \/ IterNew
    \/ IterNext
SpecSetIter == InitSetIter /\ [][NextSetIter]_vars

----------------------------------------------------------------------------
(* Properties of SimpleSet *)

LiveSlots == {k \in DOMAIN _table : IsLive(_table[k])}
DummySlots == {k \in DOMAIN _table : _table[k] = _dummy}

\* C28: after any sequence of add and discard a SimpleSet agrees with an
\* abstract set compared by equality: the objects in its table are those
\* of the abstract set, key in set holds exactly for the keys equal to one
\* of them, add returns the object stored for the key (the stored equal
\* one, else the key), and discard returns 1 exactly when the key was
\* present.
C28_AgreesWithAbstractSet ==
    /\ {_table[k] : k \in LiveSlots} = members
    /\ \A key \in Keys : Contains(key) <=> Stored(key) # {}
    /\ (set_ret.op \in {"add", "discard"} /\ set_ret.err = "none") =>
           set_ret.ret = set_ret.expect

\* add of an object equal to a stored one returned the stored one, in a
\* table that has been resized and holds a dummy
C28_Witness ==
    /\ set_ret.op = "add"
    /\ set_ret.key = <<2, 1>>
    /\ set_ret.ret = <<1, 1>>
    /\ _mask + 1 = 2 * DEFAULT_SIZE
    /\ DummySlots # {}

IsPowerOfTwo(n) == \E e \in 0 .. 30 : n = Pow2(e)

\* C29: in every state of a SimpleSet reached by add, discard and resize,
\* _used is the number of live slots, _fill the number of live and dummy
\* slots, 0 <= _used <= _fill < _mask + 1, and the table size _mask + 1 is
\* a power of two not below DEFAULT_SIZE.
C29_TableInvariants ==
    /\ _used = Cardinality(LiveSlots)
    /\ _fill = Cardinality(LiveSlots) + Cardinality(DummySlots)
    /\ 0 <= _used
    /\ _used <= _fill
    /\ _fill < _mask + 1
    /\ Len(_table) = _mask + 1
    /\ IsPowerOfTwo(_mask + 1)
    /\ _mask + 1 >= DEFAULT_SIZE

\* A step of the iterator
IterStepped == iter.made /\ iter'.steps = iter.steps + 1

\* C30: once add or discard has changed the set after the iterator was
\* created, a step of the iterator (that has not ended) raises
\* RuntimeError, and no step yields an element.
C30_MutationDetected ==
    [][(IterStepped /\ iter.mutated) =>
           /\ iter.set => iter'.err = "RuntimeError"
           /\ iter'.err # "none"]_vars

\* The second half alone: no step yields an element of a changed set.
NoYieldAfterMutation ==
    [][(IterStepped /\ iter.mutated) => iter'.err # "none"]_vars

====
